---- MODULE Spec2Model ----
(***************************************************************************)
(* Model of pyphysim's single user channel, SuSisoChannel                  *)
(* (pyphysim/channels/singleuser.py): a facade over one TdlChannel that    *)
(* adds a linear-scale path loss.                                          *)
(*                                                                         *)
(* Numbers.  Samples are complex numbers with integer parts,               *)
(* [re |-> Int, im |-> Int].  A path loss is a power ratio n / PlDen, held *)
(* as its numerator n; math.sqrt of it is the amplitude k / AmpDen with    *)
(* k = Sqrt(n), exact on the squares the model feeds it (PlDen = AmpDen^2).*)
(* Fading gains are multiples of AmpDen, so scaling them is exact.         *)
(*                                                                         *)
(* Optional values.  Python's None is the empty tuple and a given value x  *)
(* is the one-element tuple <<x>>.                                         *)
(***************************************************************************)
EXTENDS Integers, Sequences, FiniteSets, TLC

\* Bounds of the model.
AmpDen == 2
MaxCorrupt == 2
MaxSignalLen == 2
MaxBitsInput == 64

\* Ts substituted by SuSisoChannel.__init__.
DefaultTs == 1

PlDen == AmpDen * AmpDen

None == << >>
Some(x) == << x >>
Value(o) == o[1]

Complex(a, b) == [re |-> a, im |-> b]
CZero == Complex(0, 0)
CAdd(x, y) == Complex(x.re + y.re, x.im + y.im)
CMul(x, y) == Complex(x.re * y.re - x.im * y.im, x.re * y.im + x.im * y.re)

\* math.sqrt of the path loss n / PlDen, as the numerator of an amplitude
\* over AmpDen (rounded down where n is no square).
Sqrt(n) == CHOOSE k \in 0..n : k * k <= n /\ (k + 1) * (k + 1) > n

\* x * (k / AmpDen) for a real amplitude k / AmpDen.
Scale(x, k) == Complex((x.re * k) \div AmpDen, (x.im * k) \div AmpDen)
ScaleSeq(s, k) == [i \in 1..Len(s) |-> Scale(s[i], k)]

----------------------------------------------------------------------------
\* The inputs.

\* fading_generators.RayleighSampleGenerator(): a fresh instance.
RayleighSampleGenerator == [kind |-> "Rayleigh", id |-> 0, pos |-> 0]
\* A generator instance built by the caller.
SuppliedGenerator == [kind |-> "Jakes", id |-> 1, pos |-> 0]

GeneratorArgs == {None, Some(SuppliedGenerator)}
ProfileArgs == {None, Some([tap_powers_dB |-> <<0, -3>>, tap_delays |-> <<0, 1>>])}
TapPowersArgs == {None, Some(<<0>>), Some(<<0, -3>>)}
TapDelaysArgs == {None, Some(<<0>>), Some(<<0, 2>>)}
TsArgs == {None, Some(1), Some(2)}

\* In range: the squares k^2 / PlDen, 0 and 1 included.  Out of range: one
\* value below 0 and one above 1.
PathlossArgs ==
    {None} \cup {Some(k * k) : k \in 0..AmpDen} \cup {Some(-1), Some(PlDen + 1)}

\* The transmitted signals: the prefixes of a fixed symbol sequence.
Pilot == [n \in 1..MaxSignalLen |->
             IF n % 2 = 1 THEN Complex(1, 0) ELSE Complex(0, 1)]
Signals == {SubSeq(Pilot, 1, n) : n \in 1..MaxSignalLen}
FadingSamples == {Complex(AmpDen, 0), Complex(0, -AmpDen)}

----------------------------------------------------------------------------
\* TdlChannel, the engine the facade owns (pyphysim/channels/fading.py), as
\* its specification describes it.

\* A tap description is inconsistent when only one of the two arrays is
\* given or when their lengths differ.
InconsistentTaps(tap_powers_dB, tap_delays) ==
    \/ (tap_powers_dB = None) # (tap_delays = None)
    \/ /\ tap_powers_dB # None
       /\ tap_delays # None
       /\ Len(Value(tap_powers_dB)) # Len(Value(tap_delays))

\* TdlChannel(fading_generator, channel_profile, tap_powers_dB, tap_delays, Ts)
TdlInit(a) ==
    IF \/ InconsistentTaps(a.tap_powers_dB, a.tap_delays)
       \/ a.channel_profile = None /\ a.tap_powers_dB = None
    THEN [chan |-> None, error |-> "ValueError"]
    ELSE [chan |-> Some([fading_generator |-> Value(a.fading_generator),
                         channel_profile |->
                             IF a.channel_profile # None
                             THEN Value(a.channel_profile)
                             ELSE [tap_powers_dB |-> Value(a.tap_powers_dB),
                                   tap_delays |-> Value(a.tap_delays)],
                         Ts |-> a.Ts,
                         last_impulse_response |-> None,
                         instance |-> 1]),
          error |-> ""]

\* round(delay / Ts), halves to the even neighbour.
RoundDiv(d, t) ==
    LET q == d \div t
        r == d % t
    IN  IF 2 * r < t THEN q
        ELSE IF 2 * r > t THEN q + 1
        ELSE IF q % 2 = 0 THEN q ELSE q + 1

SeqMax(s) == CHOOSE m \in {s[i] : i \in 1..Len(s)} : \A i \in 1..Len(s) : s[i] <= m

RECURSIVE CSum(_, _)
CSum(f, S) ==
    IF S = {} THEN CZero
    ELSE LET x == CHOOSE y \in S : TRUE IN CAdd(f[x], CSum(f, S \ {x}))

\* The grid position of each tap of the profile.
TapPositions(chan) ==
    [i \in 1..Len(chan.channel_profile.tap_delays) |->
        RoundDiv(chan.channel_profile.tap_delays[i], Value(chan.Ts))]

\* One realisation of the impulse response: gains[i] is the generator's draw
\* for tap i (its amplitude included); taps snapped to the same grid position
\* add up and empty positions in between hold a zero gain.
ImpulseResponse(chan, gains) ==
    LET pos == TapPositions(chan)
    IN  [n \in 1..(SeqMax(pos) + 1) |->
            CSum(gains, {i \in 1..Len(pos) : pos[i] = n - 1})]

\* The linear convolution of signal and taps.
Convolve(signal, taps) ==
    [n \in 1..(Len(signal) + Len(taps) - 1) |->
        CSum([k \in 1..Len(signal) |->
                 IF n - k + 1 \in 1..Len(taps)
                 THEN CMul(signal[k], taps[n - k + 1]) ELSE CZero],
             1..Len(signal))]

\* exp(-2 pi j e / N) for N in {1, 2, 4}.
Twiddle(N, e) ==
    LET q == (e % N) * (4 \div N)
    IN  << Complex(1, 0), Complex(0, -1), Complex(-1, 0), Complex(0, 1) >>[q + 1]

\* Bin k of the fft_size-point transform of the zero-padded impulse response.
FreqResponse(taps, fft_size, k) ==
    CSum([n \in 1..Len(taps) |-> CMul(taps[n], Twiddle(fft_size, (n - 1) * k))],
         1..Len(taps))

\* The channel after one more realisation was drawn and cached.
Advanced(chan, taps) ==
    [chan EXCEPT !.fading_generator.pos = @ + 1,
                 !.last_impulse_response = Some(taps)]

\* TdlChannel.corrupt_data(signal): the new channel state and the output, a
\* fresh array.  The response is held constant over the call.
TdlCorruptData(chan, signal, gains) ==
    IF chan.Ts = None
    THEN [chan |-> chan, error |-> "TsUndefined", output |-> << >>]
    ELSE LET taps == ImpulseResponse(chan, gains)
         IN  [chan |-> Advanced(chan, taps), error |-> "",
              output |-> Convolve(signal, taps)]

\* The carriers used: all of them when carrier_indexes is None.
Carriers(fft_size, carrier_indexes) ==
    IF carrier_indexes = None THEN [j \in 1..fft_size |-> j - 1]
    ELSE Value(carrier_indexes)

\* TdlChannel.corrupt_data_in_freq_domain(signal, fft_size, carrier_indexes)
\* on one block of signal (one sample per carrier used).
TdlCorruptDataInFreqDomain(chan, signal, fft_size, carrier_indexes, gains) ==
    LET idx == Carriers(fft_size, carrier_indexes)
    IN  IF chan.Ts = None
        THEN [chan |-> chan, error |-> "TsUndefined", output |-> << >>]
        ELSE LET taps == ImpulseResponse(chan, gains)
             IN  IF fft_size < Len(taps)
                 THEN [chan |-> chan, error |-> "SizeMismatch", output |-> << >>]
                 ELSE IF \E j \in 1..Len(idx) : idx[j] < 0 \/ idx[j] >= fft_size
                 THEN [chan |-> chan, error |-> "InvalidCarrier", output |-> << >>]
                 ELSE [chan |-> Advanced(chan, taps), error |-> "",
                       output |-> [j \in 1..Len(signal) |->
                           CMul(signal[j], FreqResponse(taps, fft_size, idx[j]))]]

\* TdlChannel.get_last_impulse_response(): not available before the first
\* corruption.
TdlGetLastImpulseResponse(chan) ==
    IF chan.last_impulse_response = None
    THEN [error |-> "NotAvailable", response |-> << >>]
    ELSE [error |-> "", response |-> Value(chan.last_impulse_response)]

\* TdlChannel.num_taps
TdlNumTaps(chan) ==
    [error |-> "", value |-> Len(chan.channel_profile.tap_delays)]

\* TdlChannel.num_taps_with_padding: not available while the profile is not
\* discretized.
TdlNumTapsWithPadding(chan) ==
    IF chan.Ts = None THEN [error |-> "NotAvailable", value |-> 0]
    ELSE [error |-> "", value |-> SeqMax(TapPositions(chan)) + 1]

\* TdlChannel.channel_profile
TdlChannelProfile(chan) ==
    [error |-> "", value |-> chan.channel_profile]

----------------------------------------------------------------------------
\* SuSisoChannel.

\* __init__ that substitutes no Ts.
SuInitArgs_NoDefaultTs(fading_generator, channel_profile, tap_powers_dB, tap_delays, Ts) ==
    LET gen == IF fading_generator = None
               THEN Some(RayleighSampleGenerator)
               ELSE fading_generator
    IN  IF channel_profile = None /\ tap_powers_dB = None /\ tap_delays = None
        THEN [fading_generator |-> gen, channel_profile |-> None,
              tap_powers_dB |-> Some(<<0>>), tap_delays |-> Some(<<0>>),
              Ts |-> Ts]
        ELSE [fading_generator |-> gen, channel_profile |-> channel_profile,
              tap_powers_dB |-> tap_powers_dB, tap_delays |-> tap_delays,
              Ts |-> Ts]

\* __init__ that always builds its own Rayleigh generator.
SuInitArgs_AlwaysRayleigh(fading_generator, channel_profile, tap_powers_dB, tap_delays, Ts) ==
    LET gen == Some(RayleighSampleGenerator)
        Ts1 == IF fading_generator = None /\ channel_profile = None /\ Ts = None
               THEN Some(DefaultTs)
               ELSE Ts
    IN  IF channel_profile = None /\ tap_powers_dB = None /\ tap_delays = None
        THEN [fading_generator |-> gen, channel_profile |-> None,
              tap_powers_dB |-> Some(<<0>>), tap_delays |-> Some(<<0>>),
              Ts |-> Ts1]
        ELSE [fading_generator |-> gen, channel_profile |-> channel_profile,
              tap_powers_dB |-> tap_powers_dB, tap_delays |-> tap_delays,
              Ts |-> Ts1]

\* __init__ whose flat-fading test looks at channel_profile and tap_delays only.
SuInitArgs_FlatWithoutDelays(fading_generator, channel_profile, tap_powers_dB, tap_delays, Ts) ==
    LET gen == IF fading_generator = None
               THEN Some(RayleighSampleGenerator)
               ELSE fading_generator
        Ts1 == IF fading_generator = None /\ channel_profile = None /\ Ts = None
               THEN Some(DefaultTs)
               ELSE Ts
    IN  IF channel_profile = None /\ tap_delays = None
        THEN [fading_generator |-> gen, channel_profile |-> None,
              tap_powers_dB |-> Some(<<0>>), tap_delays |-> Some(<<0>>),
              Ts |-> Ts1]
        ELSE [fading_generator |-> gen, channel_profile |-> channel_profile,
              tap_powers_dB |-> tap_powers_dB, tap_delays |-> tap_delays,
              Ts |-> Ts1]

\* SuSisoChannel.__init__: the arguments it passes to TdlChannel.
SuInitArgs(fading_generator, channel_profile, tap_powers_dB, tap_delays, Ts) ==
    LET gen == IF fading_generator = None
               THEN Some(RayleighSampleGenerator)
               ELSE fading_generator
        Ts1 == IF fading_generator = None /\ channel_profile = None /\ Ts = None
               THEN Some(DefaultTs)
               ELSE Ts
    IN  IF channel_profile = None /\ tap_powers_dB = None /\ tap_delays = None
        THEN [fading_generator |-> gen,
              channel_profile |-> None,
              tap_powers_dB |-> Some(<<0>>),
              tap_delays |-> Some(<<0>>),
              Ts |-> Ts1]
        ELSE [fading_generator |-> gen,
              channel_profile |-> channel_profile,
              tap_powers_dB |-> tap_powers_dB,
              tap_delays |-> tap_delays,
              Ts |-> Ts1]

\* SuSisoChannel.__init__: the object built, or the error of TdlChannel.
SuInit(fading_generator, channel_profile, tap_powers_dB, tap_delays, Ts) ==
    LET a == SuInitArgs(fading_generator, channel_profile, tap_powers_dB,
                        tap_delays, Ts)
        r == TdlInit(a)
    IN  [inner_args |-> a,
         tdlchannel |-> r.chan,
         pathloss_value |-> None,
         error |-> r.error]

\* output *= math.sqrt(pathloss_value), when a path loss is set.
ApplyPathloss(pathloss_value, samples) ==
    IF pathloss_value = None THEN samples
    ELSE ScaleSeq(samples, Sqrt(Value(pathloss_value)))

\* set_pathloss that assigns before it validates.
SuSetPathloss_StoreFirst(chan, old, pathloss_value) ==
    IF pathloss_value # None
       /\ (Value(pathloss_value) < 0 \/ Value(pathloss_value) > PlDen)
    THEN [calls |-> << >>, tdlchannel |-> chan, pathloss_value |-> pathloss_value,
          error |-> "ValueError"]
    ELSE [calls |-> << >>, tdlchannel |-> chan, pathloss_value |-> pathloss_value, error |-> ""]

\* set_pathloss that tests the lower limit only.
SuSetPathloss_NoUpperLimit(chan, old, pathloss_value) ==
    IF pathloss_value # None /\ Value(pathloss_value) < 0
    THEN [calls |-> << >>, tdlchannel |-> chan, pathloss_value |-> old, error |-> "ValueError"]
    ELSE [calls |-> << >>, tdlchannel |-> chan, pathloss_value |-> pathloss_value, error |-> ""]

\* SuSisoChannel.set_pathloss: the object after the call and the error raised.
SuSetPathloss(chan, old, pathloss_value) ==
    IF pathloss_value # None
       /\ (Value(pathloss_value) < 0 \/ Value(pathloss_value) > PlDen)
    THEN [calls |-> << >>, tdlchannel |-> chan, pathloss_value |-> old, error |-> "ValueError"]
    ELSE [calls |-> << >>, tdlchannel |-> chan, pathloss_value |-> pathloss_value, error |-> ""]

\* corrupt_data that multiplies by the path loss itself, not its square root.
SuCorruptData_NoSqrt(chan, pathloss_value, signal, gains) ==
    LET r == TdlCorruptData(chan, signal, gains)
    IN  [calls |-> <<"corrupt_data">>, tdlchannel |-> r.chan, error |-> r.error,
         output |-> IF r.error # "" \/ pathloss_value = None THEN r.output
                    ELSE [i \in 1..Len(r.output) |->
                             Complex((r.output[i].re * Value(pathloss_value)) \div PlDen,
                                     (r.output[i].im * Value(pathloss_value)) \div PlDen)]]

\* corrupt_data that transmits through the TdlChannel twice.
SuCorruptData_CallsTwice(chan, pathloss_value, signal, gains) ==
    LET first == TdlCorruptData(chan, signal, gains)
        r == TdlCorruptData(first.chan, signal, gains)
    IN  [calls |-> <<"corrupt_data", "corrupt_data">>,
         tdlchannel |-> r.chan, error |-> r.error,
         output |-> IF r.error # "" THEN << >>
                    ELSE ApplyPathloss(pathloss_value, r.output)]

\* SuSisoChannel.corrupt_data
SuCorruptData(chan, pathloss_value, signal, gains) ==
    LET r == TdlCorruptData(chan, signal, gains)
    IN  [calls |-> <<"corrupt_data">>, tdlchannel |-> r.chan, error |-> r.error,
         output |-> IF r.error # "" THEN << >>
                    ELSE ApplyPathloss(pathloss_value, r.output)]

\* SuSisoChannel.corrupt_data_in_freq_domain
SuCorruptDataInFreqDomain(chan, pathloss_value, signal, fft_size, carrier_indexes, gains) ==
    LET r == TdlCorruptDataInFreqDomain(chan, signal, fft_size, carrier_indexes,
                                        gains)
    IN  [calls |-> <<"corrupt_data_in_freq_domain">>, tdlchannel |-> r.chan, error |-> r.error,
         output |-> IF r.error # "" THEN << >>
                    ELSE ApplyPathloss(pathloss_value, r.output)]

\* get_last_impulse_response that scales the cached response in place.
SuGetLastImpulseResponse_InPlace(chan, pathloss_value) ==
    LET r == TdlGetLastImpulseResponse(chan)
        scaled == IF pathloss_value = None THEN r.response
                  ELSE ScaleSeq(r.response, Sqrt(Value(pathloss_value)))
    IN  IF r.error # ""
        THEN [calls |-> <<"get_last_impulse_response">>, tdlchannel |-> chan, error |-> r.error, response |-> << >>]
        ELSE [calls |-> <<"get_last_impulse_response">>, tdlchannel |-> [chan EXCEPT !.last_impulse_response = Some(scaled)],
              error |-> "", response |-> scaled]

\* get_last_impulse_response that reads the cache itself and hands out its None.
SuGetLastImpulseResponse_ReadsCache(chan, pathloss_value) ==
    IF chan.last_impulse_response = None
    THEN [calls |-> << >>, tdlchannel |-> chan, error |-> "", response |-> << >>]
    ELSE [calls |-> << >>, tdlchannel |-> chan, error |-> "",
          response |-> IF pathloss_value = None
                       THEN Value(chan.last_impulse_response)
                       ELSE ScaleSeq(Value(chan.last_impulse_response),
                                     Sqrt(Value(pathloss_value)))]

\* SuSisoChannel.get_last_impulse_response: the product is a new response.
SuGetLastImpulseResponse(chan, pathloss_value) ==
    LET r == TdlGetLastImpulseResponse(chan)
    IN  [calls |-> <<"get_last_impulse_response">>, tdlchannel |-> chan, error |-> r.error,
         response |-> IF r.error # "" THEN << >>
                      ELSE IF pathloss_value = None THEN r.response
                      ELSE ScaleSeq(r.response, Sqrt(Value(pathloss_value)))]

\* SuSisoChannel.num_taps
SuNumTaps(chan) ==
    LET r == TdlNumTaps(chan)
    IN  [calls |-> <<"num_taps">>, tdlchannel |-> chan, error |-> r.error,
         value |-> r.value]

\* SuSisoChannel.num_taps_with_padding
SuNumTapsWithPadding(chan) ==
    LET r == TdlNumTapsWithPadding(chan)
    IN  [calls |-> <<"num_taps_with_padding">>, tdlchannel |-> chan,
         error |-> r.error, value |-> r.value]

\* SuSisoChannel.channel_profile
SuChannelProfile(chan) ==
    LET r == TdlChannelProfile(chan)
    IN  [calls |-> <<"channel_profile">>, tdlchannel |-> chan,
         error |-> r.error, value |-> r.value]

----------------------------------------------------------------------------
VARIABLES
    tdlchannel,      \* self._tdlchannel; None when construction failed
    pathloss_value,  \* self._pathloss_value
    call,            \* the most recent call on the facade, with its arguments
    ret,             \* what that call returned or raised
    inner_call,      \* the call it made on the TdlChannel, if any
    inner_ops,       \* the operations it called on the TdlChannel, in order
    inner_ret,       \* what that inner call returned or raised
    last_set,        \* history: the argument of the last set_pathloss that returned
    applied,         \* history: the response the last corruption applied to its signal
    corrupted        \* history: a corruption call was made on the facade

vars == <<tdlchannel, pathloss_value, call, ret, inner_call, inner_ops, inner_ret,
          last_set, applied, corrupted>>

NoCall == [op |-> "none"]
Returned(tag, val) == [tag |-> tag, err |-> "", val |-> val]
Raised(err) == [tag |-> "error", err |-> err, val |-> << >>]
Result(tag, error, val) == IF error = "" THEN Returned(tag, val) ELSE Raised(error)

Constructed == tdlchannel # None
Chan == Value(tdlchannel)
NumTaps == Len(Chan.channel_profile.tap_delays)
Gains == [1..NumTaps -> FadingSamples]

FftSizes == {1, 2, 4}
CarrierArgs == {None, Some(<<0>>), Some(<<1, 3>>)}

Init ==
    \E g \in GeneratorArgs, p \in ProfileArgs, tp \in TapPowersArgs,
       td \in TapDelaysArgs, t \in TsArgs :
        LET r == SuInit(g, p, tp, td, t)
        IN  /\ tdlchannel = r.tdlchannel
            /\ pathloss_value = r.pathloss_value
            /\ call = [op |-> "__init__", fading_generator |-> g,
                       channel_profile |-> p, tap_powers_dB |-> tp,
                       tap_delays |-> td, Ts |-> t]
            /\ ret = Result("object", r.error, << >>)
            /\ inner_call = [op |-> "TdlChannel", args |-> r.inner_args]
            /\ inner_ops = <<"TdlChannel">>
            /\ inner_ret = ret
            /\ last_set = None
            /\ applied = None
            /\ corrupted = FALSE

SetPathloss ==
    /\ Constructed
    /\ \E v \in PathlossArgs :
        LET r == SuSetPathloss(tdlchannel, pathloss_value, v)
        IN  /\ tdlchannel' = r.tdlchannel
            /\ pathloss_value' = r.pathloss_value
            /\ call' = [op |-> "set_pathloss", pathloss_value |-> v]
            /\ ret' = Result("none", r.error, << >>)
            /\ inner_call' = NoCall
            /\ inner_ops' = r.calls
            /\ inner_ret' = Returned("none", << >>)
            /\ last_set' = IF r.error = "" THEN v ELSE last_set
            /\ UNCHANGED <<applied, corrupted>>

\* The response a corruption that returned has applied: the inner channel's
\* new response under the path loss in force during the call.
AppliedBy(inner, pl) ==
    IF inner.error # "" THEN applied
    ELSE Some(ApplyPathloss(pl, Value(inner.chan.last_impulse_response)))

CorruptData ==
    /\ Constructed
    /\ Chan.fading_generator.pos < MaxCorrupt
    /\ \E signal \in Signals, gains \in Gains :
        \E r \in {SuCorruptData(Chan, pathloss_value, signal, gains)},
           inner \in {TdlCorruptData(Chan, signal, gains)} :
            /\ tdlchannel' = Some(r.tdlchannel)
            /\ call' = [op |-> "corrupt_data", signal |-> signal]
            /\ ret' = Result("output", r.error, r.output)
            /\ inner_call' = [op |-> "corrupt_data", signal |-> signal]
            /\ inner_ops' = r.calls
            /\ inner_ret' = [chan |-> inner.chan,
                             result |-> Result("output", inner.error, inner.output)]
            /\ applied' = AppliedBy(inner, pathloss_value)
            /\ corrupted' = TRUE
            /\ UNCHANGED <<pathloss_value, last_set>>

CorruptDataInFreqDomain ==
    /\ Constructed
    /\ Chan.fading_generator.pos < MaxCorrupt
    /\ \E signal \in Signals, fft_size \in FftSizes, ci \in CarrierArgs,
          gains \in Gains :
        /\ Len(signal) = Len(Carriers(fft_size, ci))
        /\ \E r \in {SuCorruptDataInFreqDomain(Chan, pathloss_value, signal,
                                                fft_size, ci, gains)},
              inner \in {TdlCorruptDataInFreqDomain(Chan, signal, fft_size, ci,
                                                    gains)} :
               /\ tdlchannel' = Some(r.tdlchannel)
               /\ call' = [op |-> "corrupt_data_in_freq_domain",
                           signal |-> signal, fft_size |-> fft_size,
                           carrier_indexes |-> ci]
               /\ ret' = Result("output", r.error, r.output)
               /\ inner_call' = call'
               /\ inner_ops' = r.calls
               /\ inner_ret' = [chan |-> inner.chan,
                                result |-> Result("output", inner.error,
                                                  inner.output)]
               /\ applied' = AppliedBy(inner, pathloss_value)
               /\ corrupted' = TRUE
               /\ UNCHANGED <<pathloss_value, last_set>>

GetLastImpulseResponse ==
    /\ Constructed
    /\ LET r == SuGetLastImpulseResponse(Chan, pathloss_value)
           inner == TdlGetLastImpulseResponse(Chan)
       IN  /\ tdlchannel' = Some(r.tdlchannel)
           /\ call' = [op |-> "get_last_impulse_response"]
           /\ ret' = Result("response", r.error, r.response)
           /\ inner_call' = call'
           /\ inner_ops' = r.calls
           /\ inner_ret' = [chan |-> Chan,
                            result |-> Result("response", inner.error,
                                              inner.response)]
           /\ UNCHANGED <<pathloss_value, last_set, applied, corrupted>>

\* A read of one of the properties num_taps, num_taps_with_padding and
\* channel_profile, whose getter returned r.
ReadProperty(name, r) ==
    /\ tdlchannel' = Some(r.tdlchannel)
    /\ call' = [op |-> name]
    /\ ret' = Result("value", r.error, <<r.value>>)
    /\ inner_call' = call'
    /\ inner_ops' = r.calls
    /\ inner_ret' = [chan |-> Chan, result |-> ret']
    /\ UNCHANGED <<pathloss_value, last_set, applied, corrupted>>

GetNumTaps ==
    /\ Constructed
    /\ ReadProperty("num_taps", SuNumTaps(Chan))

GetNumTapsWithPadding ==
    /\ Constructed
    /\ ReadProperty("num_taps_with_padding", SuNumTapsWithPadding(Chan))

GetChannelProfile ==
    /\ Constructed
    /\ ReadProperty("channel_profile", SuChannelProfile(Chan))

Next ==
    \/ SetPathloss
    \/ CorruptData
    \/ CorruptDataInFreqDomain
    \/ GetLastImpulseResponse
    \/ GetNumTaps
    \/ GetNumTapsWithPadding
    \/ GetChannelProfile

Spec == Init /\ [][Next]_vars

----------------------------------------------------------------------------
\* util/misc.py: level2bits and int2bits, called on their own.

BitsInputs == (-MaxBitsInput)..MaxBitsInput

\* The loop of int2bits, entered with bits = 0:
\*     while n: n >>= 1; bits += 1
RECURSIVE Int2BitsLoop(_, _)
Int2BitsLoop(n, bits) ==
    IF n = 0 THEN bits ELSE Int2BitsLoop(n \div 2, bits + 1)

\* int2bits without its special case for 0.
Int2Bits_NoZeroCase(n) ==
    IF n < 0 THEN [error |-> "ValueError", value |-> 0]
    ELSE [error |-> "", value |-> Int2BitsLoop(n, 0)]

\* int2bits(n)
Int2Bits(n) ==
    IF n < 0 THEN [error |-> "ValueError", value |-> 0]
    ELSE IF n = 0 THEN [error |-> "", value |-> 1]
    ELSE [error |-> "", value |-> Int2BitsLoop(n, 0)]

\* level2bits(n)
Level2Bits(n) ==
    IF n < 1 THEN [error |-> "ValueError", value |-> 0]
    ELSE Int2Bits(n - 1)

InitBits ==
    /\ tdlchannel = None
    /\ pathloss_value = None
    /\ call = NoCall
    /\ ret = Returned("none", << >>)
    /\ inner_call = NoCall
    /\ inner_ops = << >>
    /\ inner_ret = Returned("none", << >>)
    /\ last_set = None
    /\ applied = None
    /\ corrupted = FALSE

Int2BitsCall ==
    /\ \E n \in BitsInputs :
        LET r == Int2Bits(n)
        IN  /\ call' = [op |-> "int2bits", n |-> n]
            /\ ret' = Result("value", r.error, <<r.value>>)
    /\ UNCHANGED <<tdlchannel, pathloss_value, inner_call, inner_ops, inner_ret,
                   last_set, applied, corrupted>>

Level2BitsCall ==
    /\ \E n \in BitsInputs :
        LET r == Level2Bits(n)
        IN  /\ call' = [op |-> "level2bits", n |-> n]
            /\ ret' = Result("value", r.error, <<r.value>>)
    /\ UNCHANGED <<tdlchannel, pathloss_value, inner_call, inner_ops, inner_ret,
                   last_set, applied, corrupted>>

NextBits ==
    \/ Int2BitsCall
    \/ Level2BitsCall

SpecBits == InitBits /\ [][NextBits]_vars

----------------------------------------------------------------------------
\* The claims.

CorruptOps == {"corrupt_data", "corrupt_data_in_freq_domain"}
InRange(v) == v = None \/ (Value(v) >= 0 /\ Value(v) <= PlDen)

\* C1: set_pathloss(v) accepts None and every v with 0 <= v <= 1 and stores
\* it; for every v < 0 or v > 1 it raises ValueError and changes nothing: the
\* stored path loss is the one held before the call and the TdlChannel is
\* untouched.
C1_SetPathlossContract ==
    [][call'.op = "set_pathloss" =>
        IF InRange(call'.pathloss_value)
        THEN /\ ret'.tag # "error"
             /\ pathloss_value' = call'.pathloss_value
        ELSE /\ ret' = Raised("ValueError")
             /\ pathloss_value' = pathloss_value
             /\ tdlchannel' = tdlchannel]_vars

\* C1 witness: an out-of-range set_pathloss has raised on a channel whose
\* path loss an earlier call had set.
C1_Witness ==
    /\ call.op = "set_pathloss"
    /\ ~InRange(call.pathloss_value)
    /\ ret.tag = "error"
    /\ pathloss_value \notin {None, Some(PlDen)}

\* C2: the output of corrupt_data and of corrupt_data_in_freq_domain is the
\* owned TdlChannel's output for the same arguments, times sqrt(path loss)
\* elementwise when a path loss is set and unchanged when it is None; the
\* path loss is the one of the most recent set_pathloss that returned.
C2_OutputIsScaledInnerOutput ==
    (call.op \in CorruptOps /\ inner_ret.result.tag = "output") =>
        /\ inner_call = call
        /\ ret.tag = "output"
        /\ Len(ret.val) = Len(inner_ret.result.val)
        /\ \A i \in 1..Len(ret.val) :
              ret.val[i] = IF last_set = None THEN inner_ret.result.val[i]
                           ELSE Scale(inner_ret.result.val[i], Sqrt(Value(last_set)))

\* C2 witness: a corruption under a path loss strictly between 0 and 1 has
\* returned an output that differs from the inner one.
C2_Witness ==
    /\ call.op = "corrupt_data"
    /\ ret.tag = "output"
    /\ last_set \notin {None, Some(0), Some(PlDen)}
    /\ ret.val # inner_ret.result.val

\* C3: get_last_impulse_response() returns the response that was applied to
\* the signal of the most recent corruption call, scaled by the path loss in
\* force during that call, also when set_pathloss was called in between.
C3_ReturnsAppliedResponse ==
    (call.op = "get_last_impulse_response" /\ applied # None) =>
        ret = Returned("response", Value(applied))

\* C4: path loss never mutates the TdlChannel: set_pathloss and
\* get_last_impulse_response leave it as it was, a corruption leaves it as
\* the inner call left it, and get_last_impulse_response called twice in a
\* row returns the same value.
C4_PathlossLeavesChannelAlone ==
    [][/\ call'.op \in {"set_pathloss", "get_last_impulse_response"} =>
            tdlchannel' = tdlchannel
       /\ call'.op \in CorruptOps => tdlchannel' = Some(inner_ret'.chan)
       /\ (call.op = "get_last_impulse_response"
             /\ call'.op = "get_last_impulse_response") => ret' = ret]_vars

\* C4 witness: get_last_impulse_response has returned a response scaled by a
\* path loss strictly between 0 and 1.
C4_Witness ==
    /\ call.op = "get_last_impulse_response"
    /\ ret.tag = "response"
    /\ pathloss_value \notin {None, Some(0), Some(PlDen)}
    /\ ret.val # Value(Chan.last_impulse_response)

\* C5: get_last_impulse_response() before any corruption call fails with a
\* "not available" error, whatever the path loss.
C5_NotAvailableBeforeCorruption ==
    (call.op = "get_last_impulse_response" /\ ~corrupted) =>
        ret = Raised("NotAvailable")

\* C5 witness: the query was made before any corruption with a path loss set.
C5_Witness ==
    /\ call.op = "get_last_impulse_response"
    /\ ~corrupted
    /\ pathloss_value # None
    /\ ret.tag = "error"

NoTapsGiven ==
    /\ call.channel_profile = None
    /\ call.tap_powers_dB = None
    /\ call.tap_delays = None

FlatFading(profile) ==
    /\ profile.tap_powers_dB = <<0>>
    /\ profile.tap_delays = <<0>>

\* C6: SuSisoChannel() with no argument builds a Rayleigh generator over one
\* tap of delay 0 and power 0 dB, with Ts = 1 and no path loss.
C6_DefaultIsFlatRayleigh ==
    (call.op = "__init__" /\ call.fading_generator = None /\ NoTapsGiven
       /\ call.Ts = None) =>
        /\ inner_call.args.fading_generator = Some(RayleighSampleGenerator)
        /\ inner_call.args.channel_profile = None
        /\ inner_call.args.tap_powers_dB = Some(<<0>>)
        /\ inner_call.args.tap_delays = Some(<<0>>)
        /\ inner_call.args.Ts = Some(1)
        /\ Constructed
        /\ Chan.fading_generator.kind = "Rayleigh"
        /\ FlatFading(Chan.channel_profile)
        /\ Chan.Ts = Some(1)
        /\ pathloss_value = None

\* C6 witness: the channel built with no argument.
C6_Witness ==
    /\ call.op = "__init__"
    /\ call.fading_generator = None /\ NoTapsGiven /\ call.Ts = None
    /\ Constructed

\* C7: with a fading generator and no profile, tap powers or tap delays, the
\* TdlChannel is built with one tap of 0 dB and delay 0 and with the supplied
\* generator instance, for every Ts, omitted or not.
C7_GeneratorAloneIsFlat ==
    (call.op = "__init__" /\ call.fading_generator # None /\ NoTapsGiven) =>
        /\ inner_call.args.fading_generator = call.fading_generator
        /\ inner_call.args.channel_profile = None
        /\ inner_call.args.tap_powers_dB = Some(<<0>>)
        /\ inner_call.args.tap_delays = Some(<<0>>)
        /\ Constructed
        /\ Chan.fading_generator = Value(call.fading_generator)
        /\ FlatFading(Chan.channel_profile)

\* C7 witness: a channel built from a generator alone, Ts omitted.
C7_Witness ==
    /\ call.op = "__init__"
    /\ call.fading_generator # None /\ NoTapsGiven /\ call.Ts = None
    /\ Constructed

\* C8: with a profile, tap powers or tap delays given, they are forwarded
\* unchanged to TdlChannel, and an omitted Ts is forwarded as omitted: the
\* facade substitutes no Ts of its own, with or without a fading generator.
C8_OmittedTsIsForwarded ==
    (call.op = "__init__" /\ ~NoTapsGiven) =>
        /\ inner_call.args.channel_profile = call.channel_profile
        /\ inner_call.args.tap_powers_dB = call.tap_powers_dB
        /\ inner_call.args.tap_delays = call.tap_delays
        /\ call.Ts = None => inner_call.args.Ts = None

\* C9 as stated: the stored path loss is None or lies in (0, 1], and is None
\* right after construction.
C9_PathlossInHalfOpenRange ==
    Constructed =>
        /\ pathloss_value = None
             \/ (Value(pathloss_value) > 0 /\ Value(pathloss_value) <= PlDen)
        /\ call.op = "__init__" => pathloss_value = None

\* C9 amended: the stored path loss is None or lies in [0, 1], 0 included,
\* and is None right after construction.
C9_PathlossInClosedRange ==
    Constructed =>
        /\ pathloss_value = None
             \/ (Value(pathloss_value) >= 0 /\ Value(pathloss_value) <= PlDen)
        /\ call.op = "__init__" => pathloss_value = None

\* C9 witness: a path loss of 1 is stored and an out-of-range call has just
\* raised.
C9_Witness ==
    /\ pathloss_value = Some(PlDen)
    /\ call.op = "set_pathloss"
    /\ ret.tag = "error"

\* C10: a construction with tap powers but no tap delays, tap delays but no
\* tap powers, or the two of different lengths fails with an error and
\* builds no channel.
C10_InconsistentTapsFail ==
    (call.op = "__init__"
       /\ \/ (call.tap_powers_dB = None) # (call.tap_delays = None)
          \/ /\ call.tap_powers_dB # None
             /\ call.tap_delays # None
             /\ Len(Value(call.tap_powers_dB)) # Len(Value(call.tap_delays))) =>
        /\ ~Constructed
        /\ ret.tag = "error"

\* C10 witness: a construction with one tap power and two tap delays failed.
C10_Witness ==
    /\ call.op = "__init__"
    /\ call.tap_powers_dB # None
    /\ call.tap_delays # None
    /\ Len(Value(call.tap_powers_dB)) < Len(Value(call.tap_delays))
    /\ ret.tag = "error"

\* C11: a corrupt_data or corrupt_data_in_freq_domain call makes exactly one
\* call, of the same-named operation, on the TdlChannel, so that a call that
\* returns advances the generator once and replaces the cached response
\* once; set_pathloss, get_last_impulse_response and the three properties
\* make no corruption call and leave the generator and the cached response as
\* they were; the TdlChannel is the same object all along.
C11_OneInnerCallPerCorruption ==
    [][/\ call'.op \in CorruptOps =>
            /\ inner_ops' = <<call'.op>>
            /\ inner_call' = call'
            /\ ret'.tag # "error" =>
                 /\ Value(tdlchannel').fading_generator.pos
                        = Chan.fading_generator.pos + 1
                 /\ Value(tdlchannel').last_impulse_response
                        = inner_ret'.chan.last_impulse_response
            /\ ret'.tag = "error" =>
                 /\ Value(tdlchannel').fading_generator = Chan.fading_generator
                 /\ Value(tdlchannel').last_impulse_response
                        = Chan.last_impulse_response
       /\ call'.op \notin CorruptOps =>
            /\ \A i \in 1..Len(inner_ops') : inner_ops'[i] \notin CorruptOps
            /\ Value(tdlchannel').fading_generator = Chan.fading_generator
            /\ Value(tdlchannel').last_impulse_response
                   = Chan.last_impulse_response
       /\ Value(tdlchannel').instance = Chan.instance]_vars

\* C11 witness: a second corruption has returned, each having advanced the
\* generator once, and a property was read since.
C11_Witness ==
    /\ Constructed
    /\ call.op = "num_taps_with_padding"
    /\ Chan.fading_generator.pos = 2
    /\ Chan.last_impulse_response # None

RECURSIVE Pow2(_)
Pow2(b) == IF b = 0 THEN 1 ELSE 2 * Pow2(b - 1)

\* b is the least number >= 1 with m < 2^b.
IsLeastBits(b, m) ==
    /\ b >= 1
    /\ m < Pow2(b)
    /\ \A c \in 1..(b - 1) : m >= Pow2(c)

\* C12: for n >= 0, int2bits(n) returns the least b >= 1 with n < 2^b (1 for
\* n = 0), and for n < 0 it raises ValueError; for n >= 1, level2bits(n) is
\* int2bits(n - 1), the least b >= 1 with 2^b >= n, and for n < 1 it raises
\* ValueError.
C12_BitsAreLeast ==
    /\ call.op = "int2bits" =>
         IF call.n >= 0
         THEN ret.tag = "value" /\ IsLeastBits(ret.val[1], call.n)
         ELSE ret = Raised("ValueError")
    /\ call.op = "level2bits" =>
         IF call.n >= 1
         THEN /\ ret.tag = "value"
              /\ IsLeastBits(ret.val[1], call.n - 1)
              /\ ret.val[1] >= 1
              /\ Pow2(ret.val[1]) >= call.n
              /\ \A c \in 1..(ret.val[1] - 1) : Pow2(c) < call.n
         ELSE ret = Raised("ValueError")

\* C12 witness: level2bits(17) has returned 5, as in its doctest.
C12_Witness ==
    /\ call.op = "level2bits"
    /\ call.n = 17
    /\ ret = Returned("value", <<5>>)
====
